---- MODULE Spec2Model ----
(***************************************************************************)
(* A model of dynaconf/utils/parse_conf.py: the converter registry, the    *)
(* directive dispatcher (_parse_conf_data), the recursive walker           *)
(* (parse_conf_data), the meta values (Reset, Del, Merge), the Lazy value  *)
(* and the encoder (unparse_conf_data).                                    *)
(*                                                                         *)
(* A Python str is a sequence of one-character strings.  A Python value is *)
(* a record with one fixed set of fields (see Val below); exceptions are   *)
(* values with t = "raise".                                                *)
(***************************************************************************)
EXTENDS Integers, Sequences, FiniteSets, TLC

VARIABLES environ, jinja_env, converters, call, lazy, last

vars == <<environ, jinja_env, converters, call, lazy, last>>

(***************************************************************************)
(* Bounds of the model.                                                    *)
(***************************************************************************)
\* largest magnitude of the integers that are encoded and parsed back
MaxInt == 12
\* largest number of items of the sequences and mappings that are encoded
MaxLen == 2

(***************************************************************************)
(* Characters and str methods.                                             *)
(***************************************************************************)
LowerSeq == <<"a","b","c","d","e","f","g","h","i","j","k","l","m",
              "n","o","p","q","r","s","t","u","v","w","x","y","z">>
UpperSeq == <<"A","B","C","D","E","F","G","H","I","J","K","L","M",
              "N","O","P","Q","R","S","T","U","V","W","X","Y","Z">>
DigitSeq == <<"0","1","2","3","4","5","6","7","8","9">>

Range(f) == {f[i] : i \in DOMAIN f}
LowerChars == Range(LowerSeq)
UpperChars == Range(UpperSeq)
DigitChars == Range(DigitSeq)
SpaceChars == {" "}

IndexOf(seq, c) == CHOOSE i \in DOMAIN seq : seq[i] = c

\* str.lower / str.upper, one character
LowerChar(c) == IF c \in UpperChars THEN LowerSeq[IndexOf(UpperSeq, c)] ELSE c
UpperChar(c) == IF c \in LowerChars THEN UpperSeq[IndexOf(LowerSeq, c)] ELSE c
Lower(s) == [i \in DOMAIN s |-> LowerChar(s[i])]
Upper(s) == [i \in DOMAIN s |-> UpperChar(s[i])]

DigitVal(c) == IndexOf(DigitSeq, c) - 1
DigitChr(n) == DigitSeq[n + 1]

Drop(s, k) == SubSeq(s, k + 1, Len(s))
Take(s, k) == SubSeq(s, 1, k)

\* str.startswith(p)
StartsWith(s, p) == Len(p) <= Len(s) /\ Take(s, Len(p)) = p

\* str.find(p): the first index (1-based) where p occurs in s, 0 when none
Find(s, p) ==
  LET hits == {i \in 1..(Len(s) - Len(p) + 1) : SubSeq(s, i, i + Len(p) - 1) = p}
  IN  IF hits = {} THEN 0 ELSE CHOOSE i \in hits : \A j \in hits : i <= j

Contains(s, p) == Find(s, p) # 0

\* str.partition(" "): <<head, sep, tail>>
Partition(s, sep) ==
  LET i == Find(s, sep)
  IN  IF i = 0 THEN <<s, <<>>, <<>>>>
      ELSE <<Take(s, i - 1), sep, Drop(s, i + Len(sep) - 1)>>

\* str.replace(old, new): every non-overlapping occurrence, left to right
RECURSIVE Replace(_, _, _)
Replace(s, old, new) ==
  LET i == Find(s, old)
  IN  IF old = <<>> \/ i = 0 THEN s
      ELSE Take(s, i - 1) \o new \o Replace(Drop(s, i + Len(old) - 1), old, new)

\* str.strip(): leading and trailing whitespace removed
RECURSIVE LStrip(_)
LStrip(s) == IF s # <<>> /\ s[1] \in SpaceChars THEN LStrip(Tail(s)) ELSE s
RECURSIVE RStrip(_)
RStrip(s) ==
  IF s # <<>> /\ s[Len(s)] \in SpaceChars THEN RStrip(Take(s, Len(s) - 1)) ELSE s
Strip(s) == RStrip(LStrip(s))

\* str.split(sep): the pieces between the occurrences of sep
RECURSIVE Split(_, _)
Split(s, sep) ==
  LET i == Find(s, sep)
  IN  IF i = 0 THEN <<s>>
      ELSE <<Take(s, i - 1)>> \o Split(Drop(s, i + Len(sep) - 1), sep)

\* sep.join(parts)
RECURSIVE Join(_, _)
Join(parts, sep) ==
  IF parts = <<>> THEN <<>>
  ELSE IF Len(parts) = 1 THEN parts[1]
  ELSE parts[1] \o sep \o Join(Tail(parts), sep)

(***************************************************************************)
(* Python values.  Every value is a record with the same fields:           *)
(*   t     the type: "none" "empty" "bool" "int" "float" "str" "list"      *)
(*         "dict" "lazy" "Reset" "Del" "Merge" "raise"                     *)
(*   n     int: the number; bool: 0/1; float: the mantissa; Merge: unique  *)
(*   d     float: the number of fractional digits (the value is n / 10^d)  *)
(*   s     str: the characters                                             *)
(*   keys  dict: the keys, in insertion order (each a str)                 *)
(*   kids  list: the items; dict: the values; lazy and meta: <<value>>     *)
(*   fmt   lazy: the formatter ("format", "jinja", or "identity", the one   *)
(*         add_converter builds, its token kept in s); dict: "DynaBox"     *)
(*         when boxed; raise: the exception class                          *)
(*   cast  lazy: the casting ("" is None)                                  *)
(***************************************************************************)
Blank ==
  [t |-> "none", n |-> 0, d |-> 0, s |-> <<>>, keys |-> <<>>, kids |-> <<>>,
   fmt |-> "", cast |-> ""]

NoneV == Blank
EmptyV == [Blank EXCEPT !.t = "empty"]
BoolV(b) == [Blank EXCEPT !.t = "bool", !.n = IF b THEN 1 ELSE 0]
IntV(n) == [Blank EXCEPT !.t = "int", !.n = n]
StrV(s) == [Blank EXCEPT !.t = "str", !.s = s]
ListV(kids) == [Blank EXCEPT !.t = "list", !.kids = kids]
DictV(keys, kids) == [Blank EXCEPT !.t = "dict", !.keys = keys, !.kids = kids]
Raise(exc) == [Blank EXCEPT !.t = "raise", !.fmt = exc]
IsRaise(v) == v.t = "raise"

RECURSIVE Pow10(_)
Pow10(d) == IF d = 0 THEN 1 ELSE 10 * Pow10(d - 1)

\* a float is kept normalised: no trailing zero in the fraction
RECURSIVE FloatV(_, _)
FloatV(n, d) ==
  IF d > 0 /\ n % 10 = 0 THEN FloatV(n \div 10, d - 1)
  ELSE [Blank EXCEPT !.t = "float", !.n = n, !.d = d]

\* dict[k] = v: a new key goes last, an old key keeps its place
DictSet(dct, k, v) ==
  IF \E i \in DOMAIN dct.keys : dct.keys[i] = k
  THEN [dct EXCEPT !.kids[CHOOSE i \in DOMAIN dct.keys : dct.keys[i] = k] = v]
  ELSE [dct EXCEPT !.keys = Append(@, k), !.kids = Append(@, v)]

\* DynaBox(value, box_settings=...) and its equality with a dict
DynaBox(v) == [v EXCEPT !.fmt = "DynaBox"]
Unboxed(v) == IF v.t = "dict" THEN [v EXCEPT !.fmt = ""] ELSE v
PyEq(a, b) == Unboxed(a) = Unboxed(b)

(***************************************************************************)
(* Numbers and text: str(int), repr(float), int(str), float(str).          *)
(***************************************************************************)
Abs(n) == IF n < 0 THEN -n ELSE n

RECURSIVE NatStr(_)
NatStr(n) == IF n < 10 THEN <<DigitChr(n)>> ELSE NatStr(n \div 10) \o <<DigitChr(n % 10)>>

IntStr(n) == IF n < 0 THEN <<"-">> \o NatStr(-n) ELSE NatStr(n)

\* the d digits of the fraction, zero-padded on the left
RECURSIVE FracStr(_, _)
FracStr(n, d) == IF d = 0 THEN <<>> ELSE FracStr(n \div 10, d - 1) \o <<DigitChr(n % 10)>>

\* repr(float) of a short decimal
FloatStr(v) ==
  (IF v.n < 0 THEN <<"-">> ELSE <<>>)
  \o NatStr(Abs(v.n) \div Pow10(v.d)) \o <<".">>
  \o (IF v.d = 0 THEN <<"0">> ELSE FracStr(Abs(v.n) % Pow10(v.d), v.d))

IsDigits(s) == s # <<>> /\ \A i \in DOMAIN s : s[i] \in DigitChars

RECURSIVE NatVal(_)
NatVal(s) == IF s = <<>> THEN 0 ELSE 10 * NatVal(Take(s, Len(s) - 1)) + DigitVal(s[Len(s)])

\* the length of the longest prefix of s made of digits
RECURSIVE DigitRun(_)
DigitRun(s) == IF s # <<>> /\ s[1] \in DigitChars THEN 1 + DigitRun(Tail(s)) ELSE 0

HasSign(s) == s # <<>> /\ s[1] \in {"-", "+"}
Unsigned(s) == IF HasSign(s) THEN Tail(s) ELSE s
Signed(s, n) == IF s # <<>> /\ s[1] = "-" THEN -n ELSE n

\* int(str): surrounding whitespace, an optional sign, decimal digits
PyInt(s0) ==
  LET s == Strip(s0)
      u == Unsigned(s)
  IN  IF IsDigits(u) THEN IntV(Signed(s, NatVal(u))) ELSE Raise("ValueError")

\* float(str): surrounding whitespace, an optional sign, digits with an
\* optional fraction (the decimal forms; exponents, inf and nan are not
\* among the model's inputs)
PyFloat(s0) ==
  LET s == Strip(s0)
      u == Unsigned(s)
      k == DigitRun(u)
      r == Drop(u, k)
      f == IF r # <<>> /\ r[1] = "." THEN Tail(r) ELSE <<>>
  IN  IF k > 0 /\ r = <<>> THEN FloatV(Signed(s, NatVal(Take(u, k))), 0)
      ELSE IF r # <<>> /\ r[1] = "." /\ (k > 0 \/ f # <<>>) /\ (f = <<>> \/ IsDigits(f))
           THEN FloatV(Signed(s, NatVal(Take(u, k) \o f)), Len(f))
      ELSE Raise("ValueError")

(***************************************************************************)
(* json.dumps and json.loads, on the values and the text the module hands  *)
(* them (no escapes inside strings).                                       *)
(***************************************************************************)
DQ == "\""
SQ == "'"

Ok(v, rest) == [ok |-> TRUE, v |-> v, rest |-> rest]
Fail == [ok |-> FALSE, v |-> Blank, rest |-> <<>>]

Quoted(s) == <<DQ>> \o s \o <<DQ>>

\* json.dumps(value); a value json cannot encode gives the text <<"!">>,
\* which no caller of the model produces
RECURSIVE JsonDumps(_)
JsonDumps(v) ==
  CASE v.t = "none" -> <<"n","u","l","l">>
    [] v.t = "bool" -> IF v.n = 1 THEN <<"t","r","u","e">> ELSE <<"f","a","l","s","e">>
    [] v.t = "int" -> IntStr(v.n)
    [] v.t = "float" -> FloatStr(v)
    [] v.t = "str" -> Quoted(v.s)
    [] v.t = "list" ->
         <<"[">> \o Join([i \in DOMAIN v.kids |-> JsonDumps(v.kids[i])], <<",", " ">>)
         \o <<"]">>
    [] v.t = "dict" ->
         <<"{">>
         \o Join([i \in DOMAIN v.kids |->
                    Quoted(v.keys[i]) \o <<":", " ">> \o JsonDumps(v.kids[i])],
                 <<",", " ">>)
         \o <<"}">>
    [] OTHER -> <<"!">>

\* a JSON number at the head of u: -?(0|[1-9][0-9]*)(\.[0-9]+)?
JsonNumber(s) ==
  LET neg == s # <<>> /\ s[1] = "-"
      u == IF neg THEN Tail(s) ELSE s
      run == DigitRun(u)
      k == IF run > 0 /\ u[1] = "0" THEN 1 ELSE run
      r == Drop(u, k)
      fk == IF r # <<>> /\ r[1] = "." THEN DigitRun(Tail(r)) ELSE 0
      m == NatVal(Take(u, k))
  IN  IF k = 0 THEN Fail
      ELSE IF fk > 0
           THEN Ok(FloatV((IF neg THEN -1 ELSE 1) * NatVal(Take(u, k) \o Take(Tail(r), fk)), fk),
                   Drop(r, fk + 1))
      ELSE Ok(IntV(IF neg THEN -m ELSE m), r)

RECURSIVE JsonValue(_)
RECURSIVE JsonItems(_, _)
RECURSIVE JsonMembers(_, _)

\* after an item r of an array: "," and more items, or "]"
JsonItemsNext(r, acc) ==
  IF ~r.ok \/ LStrip(r.rest) = <<>> THEN Fail
  ELSE IF LStrip(r.rest)[1] = "," THEN JsonItems(Tail(LStrip(r.rest)), Append(acc, r.v))
  ELSE IF LStrip(r.rest)[1] = "]" THEN Ok(ListV(Append(acc, r.v)), Tail(LStrip(r.rest)))
  ELSE Fail

\* the items of an array after "[" or ","
JsonItems(s, acc) == JsonItemsNext(JsonValue(s), acc)

\* after the value r of the member key: "," and more members, or "}"
JsonMembersNext(key, r, acc) ==
  IF ~r.ok \/ LStrip(r.rest) = <<>> THEN Fail
  ELSE IF LStrip(r.rest)[1] = ","
       THEN JsonMembers(Tail(LStrip(r.rest)), DictSet(acc, key, r.v))
  ELSE IF LStrip(r.rest)[1] = "}" THEN Ok(DictSet(acc, key, r.v), Tail(LStrip(r.rest)))
  ELSE Fail

\* one member at the head of s: "key", ":", value
JsonMember(s, acc) ==
  LET close == IF s # <<>> /\ s[1] = DQ THEN Find(Tail(s), <<DQ>>) ELSE 0
      after == LStrip(Drop(Tail(s), close))
  IN  IF close = 0 \/ after = <<>> \/ after[1] # ":" THEN Fail
      ELSE JsonMembersNext(Take(Tail(s), close - 1), JsonValue(Tail(after)), acc)

\* the members of an object after "{" or ","
JsonMembers(s, acc) == JsonMember(LStrip(s), acc)

\* a string at the head of s, which starts with the quote
QuotedAt(s) ==
  LET close == Find(Tail(s), <<s[1]>>)
  IN  IF close = 0 THEN Fail ELSE Ok(StrV(Take(Tail(s), close - 1)), Drop(Tail(s), close))

\* whether s, after its first character and whitespace, starts with c
ClosesAt(s, c) == LStrip(Tail(s)) # <<>> /\ LStrip(Tail(s))[1] = c

JsonValueAt(s) ==
  IF s = <<>> THEN Fail
  ELSE IF StartsWith(s, <<"n","u","l","l">>) THEN Ok(NoneV, Drop(s, 4))
  ELSE IF StartsWith(s, <<"t","r","u","e">>) THEN Ok(BoolV(TRUE), Drop(s, 4))
  ELSE IF StartsWith(s, <<"f","a","l","s","e">>) THEN Ok(BoolV(FALSE), Drop(s, 5))
  ELSE IF s[1] = DQ THEN QuotedAt(s)
  ELSE IF s[1] = "[" /\ ClosesAt(s, "]") THEN Ok(ListV(<<>>), Tail(LStrip(Tail(s))))
  ELSE IF s[1] = "[" THEN JsonItems(Tail(s), <<>>)
  ELSE IF s[1] = "{" /\ ClosesAt(s, "}") THEN Ok(DictV(<<>>, <<>>), Tail(LStrip(Tail(s))))
  ELSE IF s[1] = "{" THEN JsonMembers(Tail(s), DictV(<<>>, <<>>))
  ELSE JsonNumber(s)

\* JSONDecoder.raw_decode after leading whitespace: the value and the rest
JsonValue(s) == JsonValueAt(LStrip(s))

\* nothing but whitespace may follow the one value
Whole(r, exc) == IF r.ok /\ LStrip(r.rest) = <<>> THEN r.v ELSE Raise(exc)

\* json.loads(text): the value, or a JSONDecodeError (a ValueError)
JsonLoads(s) == Whole(JsonValue(s), "JSONDecodeError")

(***************************************************************************)
(* The libraries behind narrow interfaces: the TOML reader used by the     *)
(* literal fallback, dynaconf.utils.multi_replace and extract_json_objects,*)
(* and the two template renderers.                                         *)
(***************************************************************************)
RECURSIVE TomlValue(_)
RECURSIVE TomlItems(_, _)

TomlItemsNext(r, acc) ==
  IF ~r.ok \/ LStrip(r.rest) = <<>> THEN Fail
  ELSE IF LStrip(r.rest)[1] = "," THEN TomlItems(Tail(LStrip(r.rest)), Append(acc, r.v))
  ELSE IF LStrip(r.rest)[1] = "]" THEN Ok(ListV(Append(acc, r.v)), Tail(LStrip(r.rest)))
  ELSE Fail

TomlItems(s, acc) == TomlItemsNext(TomlValue(s), acc)

\* one TOML value at the head of the text: a boolean, an integer, a float,
\* a basic or literal string, or an array of these
TomlValueAt(s) ==
  IF s = <<>> THEN Fail
  ELSE IF StartsWith(s, <<"t","r","u","e">>) THEN Ok(BoolV(TRUE), Drop(s, 4))
  ELSE IF StartsWith(s, <<"f","a","l","s","e">>) THEN Ok(BoolV(FALSE), Drop(s, 5))
  ELSE IF s[1] \in {DQ, SQ} THEN QuotedAt(s)
  ELSE IF s[1] = "[" /\ ClosesAt(s, "]") THEN Ok(ListV(<<>>), Tail(LStrip(Tail(s))))
  ELSE IF s[1] = "[" THEN TomlItems(Tail(s), <<>>)
  ELSE JsonNumber(IF s[1] = "+" THEN Tail(s) ELSE s)

TomlValue(s) == TomlValueAt(LStrip(s))

\* tomllib.loads(f"key={text}")["key"]: the value, or a TOMLDecodeError
TomlLoadsKey(s) == Whole(TomlValue(s), "TOMLDecodeError")

\* multi_replace(text, patterns) with the six patterns of Merge.__init__
multi_replace(s) ==
  LET T == <<"T","r","u","e">>
      F == <<"F","a","l","s","e">>
      N == <<"N","o","n","e">>
      t == <<":", " ", "t","r","u","e">>
      f == <<":", " ", "f","a","l","s","e">>
      n == <<":", " ", "n","u","l","l">>
      s1 == Replace(Replace(s, <<":", " ">> \o T, t), <<":">> \o T, t)
      s2 == Replace(Replace(s1, <<":", " ">> \o F, f), <<":">> \o F, f)
  IN  Replace(Replace(s2, <<":", " ">> \o N, n), <<":">> \o N, n)

\* list(extract_json_objects(text)): every JSON object that decodes at a "{"
RECURSIVE extract_json_objects(_)
ExtractNext(s, r) ==
  IF r.ok THEN <<r.v>> \o extract_json_objects(r.rest)
  ELSE extract_json_objects(Tail(s))

ExtractAt(s, i) == IF i = 0 THEN <<>> ELSE ExtractNext(Drop(s, i - 1), JsonValue(Drop(s, i - 1)))

extract_json_objects(s) == ExtractAt(s, Find(s, <<"{">>))

\* the keyword arguments a formatter is called with: <<name, text>> pairs
CtxHas(ctx, name) == \E i \in DOMAIN ctx : ctx[i][1] = name
CtxGet(ctx, name) == ctx[CHOOSE i \in DOMAIN ctx : ctx[i][1] = name][2]
CtxNames(ctx) == {ctx[i][1] : i \in DOMAIN ctx}

\* str.format(template, **ctx) with plain {name} fields and {{ }} escapes
RECURSIVE StrFormat(_, _)
StrFormat(tpl, ctx) ==
  LET close == Find(tpl, <<"}">>)
      name == SubSeq(tpl, 2, close - 1)
      doubled == Len(tpl) >= 2 /\ tpl[2] = tpl[1]
      more == StrFormat(Drop(tpl, IF tpl[1] \in {"{", "}"}
                                  THEN (IF doubled THEN 2 ELSE close) ELSE 1), ctx)
  IN  IF tpl = <<>> THEN StrV(<<>>)
      ELSE IF tpl[1] \in {"{", "}"} /\ doubled
           THEN IF IsRaise(more) THEN more ELSE StrV(<<tpl[1]>> \o more.s)
      ELSE IF tpl[1] = "}" THEN Raise("ValueError")
      ELSE IF tpl[1] = "{"
           THEN IF close = 0 THEN Raise("ValueError")
                ELSE IF name = <<>> THEN Raise("IndexError")
                ELSE IF ~CtxHas(ctx, name) THEN Raise("KeyError")
                ELSE IF IsRaise(more) THEN more
                ELSE StrV(CtxGet(ctx, name) \o more.s)
      ELSE IF IsRaise(more) THEN more ELSE StrV(<<tpl[1]>> \o more.s)

\* jinja_env.from_string(template).render(**ctx) with {{ name }} expressions;
\* an undefined name renders as nothing
RECURSIVE JinjaRender(_, _)
JinjaRender(tpl, ctx) ==
  LET open == Find(tpl, <<"{", "{">>)
      body == Drop(tpl, open + 1)
      close == Find(body, <<"}", "}">>)
      name == Strip(Take(body, close - 1))
  IN  IF open = 0 \/ close = 0 THEN tpl
      ELSE Take(tpl, open - 1)
           \o (IF CtxHas(ctx, name) THEN CtxGet(ctx, name) ELSE <<>>)
           \o JinjaRender(Drop(body, close + 1), ctx)

(***************************************************************************)
(* Module constants.                                                       *)
(***************************************************************************)
true_values ==
  { <<"t">>, <<"t","r","u","e">>, <<"e","n","a","b","l","e","d">>, <<"1">>,
    <<"o","n">>, <<"y","e","s">>, <<"T","r","u","e">> }

false_values ==
  { <<"f">>, <<"f","a","l","s","e">>, <<"d","i","s","a","b","l","e","d">>, <<"0">>,
    <<"o","f","f">>, <<"n","o">>, <<"F","a","l","s","e">>, <<>> }

KeyClass == LowerChars \cup UpperChars \cup DigitChars \cup {" "}
ValClass == LowerChars \cup UpperChars \cup DigitChars \cup {"-", " ", ":"}

RECURSIVE ClassRun(_, _)
ClassRun(s, class) ==
  IF s # <<>> /\ s[1] \in class THEN 1 + ClassRun(Tail(s), class) ELSE 0

\* KV_PATTERN.findall(text): the matches of ([a-zA-Z0-9 ]*=[a-zA-Z0-9\- :]*)
RECURSIVE KV_PATTERN_findall(_)
KV_PATTERN_findall(s) ==
  LET k == ClassRun(s, KeyClass)
      v == ClassRun(Drop(s, k + 1), ValClass)
  IN  IF s = <<>> THEN <<>>
      ELSE IF Len(s) > k /\ s[k + 1] = "="
           THEN <<Take(s, k + 1 + v)>> \o KV_PATTERN_findall(Drop(s, k + 1 + v))
      ELSE KV_PATTERN_findall(Drop(s, k + 1))

(***************************************************************************)
(* The tokens of the registry.                                             *)
(***************************************************************************)
At(name) == <<"@">> \o name
TokStr == At(<<"s","t","r">>)
TokInt == At(<<"i","n","t">>)
TokFloat == At(<<"f","l","o","a","t">>)
TokBool == At(<<"b","o","o","l">>)
TokJson == At(<<"j","s","o","n">>)
TokFormat == At(<<"f","o","r","m","a","t">>)
TokJinja == At(<<"j","i","n","j","a">>)
TokReset == At(<<"r","e","s","e","t">>)
TokDel == At(<<"d","e","l">>)
TokMerge == At(<<"m","e","r","g","e">>)
TokMergeUnique == At(<<"m","e","r","g","e","_","u","n","i","q","u","e">>)
TokNote == At(<<"n","o","t","e">>)
TokComment == At(<<"c","o","m","m","e","n","t">>)
TokNull == At(<<"n","u","l","l">>)
TokNone == At(<<"n","o","n","e">>)
TokEmpty == At(<<"e","m","p","t","y">>)

Entry(key, conv) == [key |-> key, conv |-> conv]

\* the converters dict as the module defines it: key -> converter, in order
BuiltinConverters ==
  << Entry(TokStr, "str"), Entry(TokInt, "int"), Entry(TokFloat, "float"),
     Entry(TokBool, "bool"), Entry(TokJson, "json"), Entry(TokFormat, "format"),
     Entry(TokJinja, "jinja"), Entry(TokReset, "Reset"), Entry(TokDel, "Del"),
     Entry(TokMerge, "Merge"), Entry(TokMergeUnique, "merge_unique"),
     Entry(TokNote, "none"), Entry(TokComment, "none"), Entry(TokNull, "none"),
     Entry(TokNone, "none"), Entry(TokEmpty, "empty") >>

ConverterKeys == {converters[i].key : i \in DOMAIN converters}
ConverterOf(key) == converters[CHOOSE i \in DOMAIN converters : converters[i].key = key]

(***************************************************************************)
(* Lazy and the formatters.                                                *)
(***************************************************************************)
\* Lazy(value, formatter, casting)
Lazy(value, fmt, cast) ==
  [Blank EXCEPT !.t = "lazy", !.kids = <<value>>, !.fmt = fmt, !.cast = cast]
IsLazy(v) == v.t = "lazy"

\* Lazy.set_casting
set_casting(self, casting) == [self EXCEPT !.cast = casting]

\* str(value), for the values the module formats
RECURSIVE PyStr(_)
PyStr(v) ==
  CASE v.t = "str" -> v.s
    [] v.t = "int" -> IntStr(v.n)
    [] v.t = "float" -> FloatStr(v)
    [] v.t = "bool" -> IF v.n = 1 THEN <<"T","r","u","e">> ELSE <<"F","a","l","s","e">>
    [] v.t = "none" -> <<"N","o","n","e">>
    [] v.t = "lazy" -> PyStr(v.kids[1])
    [] OTHER -> <<"<", v.t, ">">>

\* the castings a Lazy can carry, applied to the rendered value
Casting(cast, v) ==
  CASE cast = "" -> v
    [] cast = "str" -> StrV(PyStr(v))
    [] cast = "int" -> IF v.t = "str" THEN PyInt(v.s) ELSE Raise("TypeError")
    [] cast = "float" -> IF v.t = "str" THEN PyFloat(v.s) ELSE Raise("TypeError")
    [] cast = "bool" -> BoolV(Lower(PyStr(v)) \in true_values)
    [] cast = "json" ->
         IF v.t = "str" THEN JsonLoads(Replace(v.s, <<SQ>>, <<DQ>>))
         ELSE Raise("AttributeError")
    [] cast = "upper" -> IF v.t = "str" THEN StrV(Upper(v.s)) ELSE Raise("TypeError")

\* Lazy.context: a new dict on every read
LazyContext(settings) ==
  << <<<<"e","n","v">>, IF environ.set THEN environ.v ELSE <<>>>>,
     <<<<"t","h","i","s">>, settings>> >>

ValidatorName == <<"_","v","a","l","i","d","a","t","o","r","_","o","b","j","e","c","t">>

\* BaseFormatter.__call__ for the three formatters
Formatter(fmt, value, ctx) ==
  CASE fmt = "format" ->
         IF value.t = "str" THEN StrFormat(value.s, ctx) ELSE Raise("TypeError")
    [] fmt = "jinja" ->
         IF ~jinja_env THEN Raise("ImportError")
         ELSE IF value.t = "str" THEN StrV(JinjaRender(value.s, ctx))
         ELSE Raise("TypeError")
    [] OTHER -> value

\* result = self.casting(result) when there is a casting
CastResult(cast, result) ==
  IF IsRaise(result) \/ cast = "" THEN result ELSE Casting(cast, result)

\* Lazy.__call__(settings, validator_object): the value returned and the
\* keyword arguments the formatter received.  The item assignment of
\* _validator_object goes to the dict that one read of self.context built;
\* the formatter is given the dict a second read builds.
LazyCall(self, settings, validator_object) ==
  LET assigned == Append(LazyContext(settings), <<ValidatorName, validator_object>>)
      passed == LazyContext(settings)
  IN  [out |-> CastResult(self.cast, Formatter(self.fmt, self.kids[1], passed)),
       ctx |-> passed]

(***************************************************************************)
(* Parsing.  A parse returns the value and the converter calls it made, in *)
(* order: each call is the registry key and the argument it received.      *)
(***************************************************************************)
PR(v, tr) == [v |-> v, tr |-> tr]
Called(key, arg) == [key |-> key, arg |-> arg]

\* castenabled without the lookup in box_settings: the environment alone
\* decides, and ToggleOff fails
castenabled_from_environ(flag) ==
  Lower(IF environ.set THEN environ.v ELSE <<"t","r","u","e">>) \notin false_values

\* box_settings.get("AUTO_CAST_FOR_DYNACONF", empty), then the environment;
\* flag is "absent", "True" or "False"
castenabled(flag) ==
  IF flag # "absent" THEN flag = "True"
  ELSE Lower(IF environ.set THEN environ.v ELSE <<"t","r","u","e">>) \notin false_values

\* parse_with_toml(data)
parse_with_toml(data) ==
  LET r == TomlLoadsKey(PyStr(data))
  IN  IF IsRaise(r) THEN data ELSE r

\* the meta values: the class, the parsed value, and Merge's unique
Meta(cls, value, unique) ==
  [Blank EXCEPT !.t = cls, !.kids = <<value>>, !.n = IF unique THEN 1 ELSE 0]
IsMeta(v) == v.t \in {"Reset", "Del", "Merge"}

RECURSIVE parse_conf_data(_, _, _)
RECURSIVE ParseEach(_, _, _)
RECURSIVE MergeKV(_, _, _)

\* the call traces of two steps, and the value of the second
Then(tr, r) == PR(r.v, tr \o r.tr)

\* self.value = parse_conf_data(value, tomlfy=True, box_settings=...), with
\* p the outcome of that parse
MetaInit(cls, p) == IF IsRaise(p.v) THEN p ELSE PR(Meta(cls, p.v, FALSE), p.tr)

\* MetaValue.__init__ (Del inherits it) and Reset.__init__
MetaValue(cls, value, flag) == MetaInit(cls, parse_conf_data(value, TRUE, flag))

\* k.strip(): parse_conf_data(v, ...) put into the dict, p the parsed v
MergeKVPut(acc, k, p, rest, flag) ==
  IF IsRaise(p.v) THEN PR(p.v, acc.tr \o p.tr)
  ELSE MergeKV(rest, flag, PR(DictSet(acc.v, Strip(k), p.v), acc.tr \o p.tr))

\* k, v = match.strip().split("=")
MergeKVSplit(acc, kv, rest, flag) ==
  MergeKVPut(acc, kv[1], parse_conf_data(StrV(kv[2]), TRUE, flag), rest, flag)

\* the dict comprehension of Merge.__init__ over the KV_PATTERN matches
MergeKV(matches, flag, acc) ==
  IF matches = <<>> THEN acc
  ELSE MergeKVSplit(acc, Split(Strip(matches[1]), <<"=">>), Tail(matches), flag)

\* the branches of Merge.__init__ for a str value
MergeStr(v, json_object, matches, flag) ==
  IF Len(json_object) = 1 THEN PR(json_object[1], <<>>)
  ELSE IF matches # <<>> THEN MergeKV(matches, flag, PR(DictV(<<>>, <<>>), <<>>))
  ELSE IF Contains(v.s, <<",">>)
       THEN PR(ListV([i \in DOMAIN Split(v.s, <<",">>) |-> StrV(Split(v.s, <<",">>)[i])]), <<>>)
  ELSE PR(ListV(<<v>>), <<>>)

\* the normalisation of Merge.__init__, after the payload is parsed
MergeNormalize(v, flag) ==
  IF v.t \in {"int", "float", "bool"} THEN PR(ListV(<<v>>), <<>>)
  ELSE IF v.t = "str"
       THEN MergeStr(v, extract_json_objects(multi_replace(v.s)), KV_PATTERN_findall(v.s), flag)
  ELSE PR(v, <<>>)

\* self.unique = unique, m the normalised value
MergeDone(tr, m, unique) ==
  IF IsRaise(m.v) THEN PR(m.v, tr \o m.tr) ELSE PR(Meta("Merge", m.v, unique), tr \o m.tr)

MergeInit(p, flag, unique) ==
  IF IsRaise(p.v) THEN p ELSE MergeDone(p.tr, MergeNormalize(p.v, flag), unique)

\* Merge.__init__(value, box_settings, unique)
Merge(value, flag, unique) == MergeInit(parse_conf_data(value, TRUE, flag), flag, unique)

\* the wrapper add_converter registers for func (the model's func is
\* str.upper): set_casting(func) on a Lazy, else a Lazy with func as its
\* casting and the identity formatter, whose token is the key
CustomConverter(key, value) ==
  IF IsLazy(value) THEN set_casting(value, "upper")
  ELSE [Lazy(value, "identity", "upper") EXCEPT !.s = key]

\* the plain branch of the five cast converters
PlainCast(conv, value) ==
  CASE conv = "str" -> StrV(PyStr(value))
    [] conv = "int" -> IF value.t = "str" THEN PyInt(value.s) ELSE Raise("TypeError")
    [] conv = "float" -> IF value.t = "str" THEN PyFloat(value.s) ELSE Raise("TypeError")
    [] conv = "bool" -> BoolV(Lower(PyStr(value)) \in true_values)
    [] conv = "json" -> IF value.t = "str" THEN JsonLoads(value.s) ELSE Raise("TypeError")

\* converters[key](value) or converters[key](value, box_settings=...)
Convert(key, conv, value, flag) ==
  CASE conv \in {"str", "int", "float", "bool", "json"} ->
         PR(IF IsLazy(value) THEN set_casting(value, conv) ELSE PlainCast(conv, value), <<>>)
    [] conv = "format" -> PR(Lazy(value, "format", ""), <<>>)
    [] conv = "jinja" -> PR(Lazy(value, "jinja", ""), <<>>)
    [] conv \in {"Reset", "Del"} -> MetaValue(conv, value, flag)
    [] conv \in {"Merge", "merge_unique"} -> Merge(value, flag, conv = "merge_unique")
    [] conv = "none" -> PR(NoneV, <<>>)
    [] conv = "empty" -> PR(EmptyV, <<>>)
    [] conv = "custom" -> PR(CustomConverter(key, value), <<>>)

\* get_converter with converters.get(key) and a pass-through for a missing
\* key, where the code indexes the dict: UnknownDirectiveOutcome fails
get_converter_lenient(converter_key, value, flag) ==
  IF converter_key \notin ConverterKeys THEN PR(value, <<>>)
  ELSE Then(<<Called(converter_key, value)>>,
            Convert(converter_key, ConverterOf(converter_key).conv, value, flag))

\* get_converter(converter_key, value, box_settings)
get_converter(converter_key, value, flag) ==
  IF converter_key \notin ConverterKeys THEN PR(Raise("KeyError"), <<>>)
  ELSE Then(<<Called(converter_key, value)>>,
            Convert(converter_key, ConverterOf(converter_key).conv, value, flag))

\* re.match(f"^({'|'.join(converters.keys())}) @(jinja|format)", data):
\* group(0), or <<>> when there is no match
CombToken(data) ==
  LET heads == {k \o <<" ">> \o f : k \in ConverterKeys, f \in {TokJinja, TokFormat}}
      hit == {h \in heads : StartsWith(data, h)}
  IN  IF hit = {} THEN <<>> ELSE CHOOSE h \in hit : TRUE

\* value = data.replace(tokens, "").strip()
CombPayload(data, tokens) == Strip(Replace(data, tokens, <<>>))

\* the key list in the order the loop walks it, so that the reversal of the
\* loop walks the tokens left to right: CompositeDirective fails
KeyListForward(data, tokens) ==
  IF tokens # <<>> THEN <<Split(tokens, <<" ">>)[2], Split(tokens, <<" ">>)[1]>>
  ELSE <<Partition(data, <<" ">>)[1]>>

\* converter_key_list and value, for the combined header or the first word
KeyList(data, tokens) ==
  IF tokens # <<>> THEN Split(tokens, <<" ">>) ELSE <<Partition(data, <<" ">>)[1]>>
Payload(data, tokens) ==
  IF tokens # <<>> THEN CombPayload(data, tokens) ELSE Partition(data, <<" ">>)[3]

\* for converter_key in converter_key_list[::-1]: value = get_converter(...)
RECURSIVE ApplyKeys(_, _, _)
ApplyKeys(keys, acc, flag) ==
  IF keys = <<>> \/ IsRaise(acc.v) THEN acc
  ELSE ApplyKeys(Take(keys, Len(keys) - 1),
                 Then(acc.tr, get_converter(keys[Len(keys)], acc.v, flag)), flag)

\* the branch of _parse_conf_data that applies converters
Dispatch(data, tokens, flag) ==
  ApplyKeys(KeyList(data, tokens), PR(StrV(Payload(data, tokens)), <<>>), flag)

\* if isinstance(value, dict): value = DynaBox(value, ...)
Boxed(r) == IF r.v.t = "dict" THEN PR(DynaBox(r.v), r.tr) ELSE r

\* _parse_conf_data(data, tomlfy, box_settings)
_parse_conf_data(data, tomlfy, flag) ==
  Boxed(IF castenabled(flag) /\ data.t = "str" /\ data.s # <<>>
           /\ \E k \in ConverterKeys : StartsWith(data.s, k)
        THEN Dispatch(data.s, CombToken(data.s), flag)
        ELSE PR(IF tomlfy THEN parse_with_toml(data) ELSE data, <<>>))

\* the items after the first, h the outcome of the first
ParseCons(h, more) ==
  IF IsRaise(more.v) THEN PR(more.v, h.tr \o more.tr)
  ELSE PR(ListV(<<h.v>> \o more.v.kids), h.tr \o more.tr)

ParseRest(h, rest, tomlfy, flag) ==
  IF IsRaise(h.v) THEN h ELSE ParseCons(h, ParseEach(rest, tomlfy, flag))

\* the items of a sequence or the values of a mapping, each walked in turn
ParseEach(kids, tomlfy, flag) ==
  IF kids = <<>> THEN PR(ListV(<<>>), <<>>)
  ELSE ParseRest(parse_conf_data(kids[1], tomlfy, flag), Tail(kids), tomlfy, flag)

\* a list for a sequence, a dict with the same keys for a mapping
Walked(data, each) ==
  IF data.t = "list" \/ IsRaise(each.v) THEN each
  ELSE PR(DictV(data.keys, each.v.kids), each.tr)

\* parse_conf_data(data, tomlfy, box_settings)
parse_conf_data(data, tomlfy, flag) ==
  IF data.t \in {"list", "dict"} THEN Walked(data, ParseEach(data.kids, tomlfy, flag))
  ELSE _parse_conf_data(data, tomlfy, flag)

\* str(formatter): BaseFormatter.token
FormatterToken(v) ==
  CASE v.fmt = "format" -> <<"f","o","r","m","a","t">>
    [] v.fmt = "jinja" -> <<"j","i","n","j","a">>
    [] OTHER -> v.s

\* Lazy._dynaconf_encode, reached through try_to_encode
LazyEncode(v) == <<"@">> \o FormatterToken(v) \o <<" ">> \o PyStr(v.kids[1])

\* unparse_conf_data writing a float without its decimal point: RoundTrip
\* fails
unparse_without_point(value) ==
  CASE value.t = "bool" -> StrV(TokBool \o <<" ">> \o PyStr(value))
    [] value.t = "int" -> StrV(TokInt \o <<" ">> \o IntStr(value.n))
    [] value.t = "float" -> StrV(TokFloat \o <<" ">> \o IntStr(value.n))
    [] value.t \in {"list", "dict"} -> StrV(TokJson \o <<" ">> \o JsonDumps(value))
    [] value.t = "lazy" -> StrV(LazyEncode(value))
    [] value.t = "none" -> StrV(TokNone \o <<" ">>)
    [] OTHER -> value

\* unparse_conf_data(value)
unparse_conf_data(value) ==
  CASE value.t = "bool" -> StrV(TokBool \o <<" ">> \o PyStr(value))
    [] value.t = "int" -> StrV(TokInt \o <<" ">> \o IntStr(value.n))
    [] value.t = "float" -> StrV(TokFloat \o <<" ">> \o FloatStr(value))
    [] value.t \in {"list", "dict"} -> StrV(TokJson \o <<" ">> \o JsonDumps(value))
    [] value.t = "lazy" -> StrV(LazyEncode(value))
    [] value.t = "none" -> StrV(TokNone \o <<" ">>)
    [] OTHER -> value

(***************************************************************************)
(* The inputs the calls are drawn from.                                    *)
(***************************************************************************)
\* what follows a single token, and also parsed on its own
Payloads ==
  {
    <<>>,   \* ''
    <<"1">>,   \* '1'
    <<"-","3">>,   \* '-3'
    <<"1",".","5">>,   \* '1.5'
    <<"t","r","u","e">>,   \* 'true'
    <<"T","r","u","e">>,   \* 'True'
    <<"y","e","s">>,   \* 'yes'
    <<"f","o","o">>,   \* 'foo'
    <<"f","o","o",",","b","a","r">>,   \* 'foo,bar'
    <<"a","=","1",","," ","b","=","2">>,   \* 'a=1, b=2'
    <<"{",DQ,"x",DQ,":"," ","t","r","u","e","}">>,   \* '{"x": true}'
    <<"{",DQ,"x",DQ,":"," ","T","r","u","e","}">>,   \* '{"x": True}'
    <<"[","1",","," ","2","]">>,   \* '[1, 2]'
    <<"[",SQ,"a",SQ,"]">>,   \* "['a']"
    <<"[",DQ,"a",DQ,"]">>,   \* '["a"]'
    <<"@","n","o","n","e">>,   \* '@none'
    <<"@","i","n","t"," ","7">>,   \* '@int 7'
    <<"@","i","n","t"," ","x">>,   \* '@int x'
    <<"{","t","h","i","s","}","0">>,   \* '{this}0'
    <<DQ,"i","t",SQ,"s",DQ>>   \* '"it\'s"'
  }

\* what follows a combined header
TemplatePayloads ==
  {
    <<"{","t","h","i","s","}","0">>,   \* '{this}0'
    <<"{","{","t","h","i","s","}","}","0">>,   \* '{{this}}0'
    <<"4">>,   \* '4'
    <<" ","1",".","5"," ">>,   \* ' 1.5 '
    <<"y","e","s">>,   \* 'yes'
    <<"[",SQ,"a",SQ,"]">>,   \* "['a']"
    <<"[","1",","," ","2","]">>,   \* '[1, 2]'
    <<DQ,"i","t",SQ,"s",DQ>>,   \* '"it\'s"'
    <<"x">>,   \* 'x'
    <<"{","_","v","a","l","i","d","a","t","o","r","_","o","b","j","e","c","t","}">>,   \* '{_validator_object}'
    <<"{","n","o","p","e","}">>,   \* '{nope}'
    <<>>   \* ''
  }

\* first words that are not keys of the built-in registry
OtherHeads ==
  {
    <<"@","n","o","p","e">>,   \* '@nope'
    <<"@","i","n","t","5">>,   \* '@int5'
    <<"@">>,   \* '@'
    <<"@","u","p">>,   \* '@up'
    <<"u","p">>   \* 'up'
  }

TokUp == At(<<"u","p">>)
BuiltinKeys == {BuiltinConverters[i].key : i \in DOMAIN BuiltinConverters}
Heads == BuiltinKeys \cup OtherHeads
Secondaries == {TokFormat, TokJinja}
CombHeaders == {h \o <<" ">> \o f : h \in Heads, f \in Secondaries}

\* raw strings: a payload alone, a head alone, a head and a payload, a
\* combined header and a payload (with and without the space between), and
\* a combined header whose payload holds the header text again
RawStrings ==
  Payloads
  \cup Heads
  \cup {h \o <<" ">> \o p : h \in Heads, p \in Payloads}
  \cup {c \o <<" ">> \o p : c \in CombHeaders, p \in TemplatePayloads}
  \cup {c \o p : c \in CombHeaders, p \in {<<"x">>, <<"1">>}}
  \cup {c \o <<" ", "1">> \o c \o <<"2">> : c \in CombHeaders}

\* typed values: the scalars, and sequences and mappings built from them
Atoms == {BoolV(TRUE), BoolV(FALSE), NoneV, IntV(-7), FloatV(15, 1)}
Scalars ==
  {BoolV(TRUE), BoolV(FALSE), NoneV}
  \cup {IntV(n) : n \in -MaxInt..MaxInt}
  \cup {FloatV(n, d) : n \in -MaxInt..MaxInt, d \in 0..2}
DictKeys == << <<"a">>, <<"b", " ", "c">> >>
Tuples(S) == UNION {[1..n -> S] : n \in 0..MaxLen}
Lists(S) == {ListV(kids) : kids \in Tuples(S)}
Dicts(S) ==
  {DictV(SubSeq(DictKeys, 1, Len(kids)), kids) : kids \in {k \in Tuples(S) : Len(k) <= Len(DictKeys)}}
  \cup {DictV(<<DictKeys[2], DictKeys[1]>>, <<a, a>>) : a \in S}
Flat == Lists(Atoms) \cup Dicts(Atoms)
Nested ==
  {ListV(<<c>>) : c \in Flat} \cup {ListV(<<IntV(1), c>>) : c \in Flat}
  \cup {DictV(<<DictKeys[1]>>, <<c>>) : c \in Flat}
TypedValues == Scalars \cup Flat \cup Nested

\* sequences and mappings of raw strings, for the walker
Structures ==
  { ListV(<<StrV(TokInt \o <<" ", "1">>), StrV(<<"x">>)>>),
    ListV(<<StrV(TokBool \o <<" ", "o", "n">>), ListV(<<StrV(TokNone)>>)>>),
    DictV(DictKeys, <<StrV(TokInt \o <<" ", "1">>),
                      ListV(<<StrV(TokBool \o <<" ", "y","e","s">>), StrV(<<"p">>)>>)>>),
    DictV(<<DictKeys[1]>>, <<StrV(TokInt \o <<" ", "x">>)>>) }

Inputs == {StrV(s) : s \in RawStrings} \cup TypedValues \cup Structures

\* AUTO_CAST_FOR_DYNACONF in os.environ: unset, or its text
Unset == [set |-> FALSE, v |-> <<>>]
EnvChoices ==
  { Unset,
    [set |-> TRUE, v |-> <<"F","a","l","s","e">>],
    [set |-> TRUE, v |-> <<"o","n">>],
    [set |-> TRUE, v |-> <<>>] }
Flags == {"absent", "True", "False"}

\* the settings and validator objects of an evaluation, by their str()
SettingsChoices == {<<"4">>, <<"x">>}
ValidatorChoices == {<<"V">>, <<"N","o","n","e">>}

(***************************************************************************)
(* The state machine.  A run is one caller: the environment, the template  *)
(* engine and the arguments of its call are drawn at the start; it may     *)
(* register a converter, parses its data (or encodes it and parses the     *)
(* text back), and then works with the value returned: it evaluates a Lazy *)
(* any number of times and unwraps a meta value.                           *)
(*                                                                         *)
(*   environ     AUTO_CAST_FOR_DYNACONF in os.environ                      *)
(*   jinja_env   whether "from jinja2 import Environment" succeeded        *)
(*   converters  the registry                                              *)
(*   call        the arguments of the caller's parse_conf_data call        *)
(*   lazy        the Lazy object the caller holds, with its attributes     *)
(*   last        the last operation: its arguments and what it returned    *)
(***************************************************************************)
NoLazy == [live |-> FALSE, obj |-> Blank, settings |-> <<>>, evaluated |-> FALSE]
Held(obj) == [live |-> TRUE, obj |-> obj, settings |-> <<>>, evaluated |-> FALSE]

NoOp ==
  [op |-> "none", arg |-> Blank, out |-> Blank, tr |-> <<>>, enabled |-> FALSE,
   origin |-> Blank, settings |-> <<>>, validator |-> <<>>, ctx |-> <<>>]

Init ==
  /\ environ \in EnvChoices
  /\ jinja_env \in BOOLEAN
  /\ converters = BuiltinConverters
  /\ call \in [data : Inputs, tomlfy : BOOLEAN, flag : Flags]
  /\ lazy = NoLazy
  /\ last = NoOp

\* add_converter(converter_key, func)
add_converter(converter_key) ==
  LET key == IF StartsWith(converter_key, <<"@">>) THEN converter_key ELSE At(converter_key)
  IN  IF key \in ConverterKeys
      THEN [i \in DOMAIN converters |->
              IF converters[i].key = key THEN Entry(key, "custom") ELSE converters[i]]
      ELSE Append(converters, Entry(key, "custom"))

AddConverter(name) ==
  /\ last.op = "none"
  /\ converters' = add_converter(name)
  /\ UNCHANGED <<environ, jinja_env, call, lazy, last>>

\* unparse_conf_data(call.data)
Unparse ==
  /\ last.op = "none"
  /\ last' = [NoOp EXCEPT !.op = "unparse", !.arg = call.data,
                          !.out = unparse_conf_data(call.data)]
  /\ UNCHANGED <<environ, jinja_env, converters, call, lazy>>

\* what a parse leaves: the call and its outcome r, and the Lazy returned
Parsed(op, data, origin, r) ==
  /\ last' = [NoOp EXCEPT !.op = op, !.arg = data, !.out = r.v, !.tr = r.tr,
                          !.enabled = castenabled(call.flag), !.origin = origin]
  /\ lazy' = IF IsLazy(r.v) THEN Held(r.v) ELSE NoLazy

\* parse_conf_data(data, tomlfy, box_settings) on the caller's data
ParseConfData ==
  /\ last.op = "none"
  /\ Parsed("parse", call.data, Blank,
            parse_conf_data(call.data, call.tomlfy, call.flag))
  /\ UNCHANGED <<environ, jinja_env, converters, call>>

\* parse_conf_data on the text unparse_conf_data returned
ParseEncoded ==
  /\ last.op = "unparse"
  /\ Parsed("reparse", last.out, last.arg,
            parse_conf_data(last.out, call.tomlfy, call.flag))
  /\ UNCHANGED <<environ, jinja_env, converters, call>>

\* what an evaluation leaves, r the outcome of the call
Evaluated(settings, validator_object, r) ==
  /\ last' = [NoOp EXCEPT !.op = "evaluate", !.arg = lazy.obj, !.out = r.out,
                          !.settings = settings, !.validator = validator_object,
                          !.ctx = r.ctx]
  /\ lazy' = [lazy EXCEPT !.settings = settings, !.evaluated = TRUE]

\* lazy(settings, validator_object)
Evaluate(settings, validator_object) ==
  /\ lazy.live
  /\ Evaluated(settings, validator_object, LazyCall(lazy.obj, settings, validator_object))
  /\ UNCHANGED <<environ, jinja_env, converters, call>>

\* unwrap as MetaValue defines it, without the override of Del:
\* DelAccessFails fails
unwrap_inherited(self) == self.kids[1]

\* MetaValue.unwrap, which Del overrides
unwrap(self) == IF self.t = "Del" THEN Raise("ValueError") ELSE self.kids[1]

Unwrap ==
  /\ last.op = "parse"
  /\ IsMeta(last.out)
  /\ last' = [NoOp EXCEPT !.op = "unwrap", !.arg = last.out, !.out = unwrap(last.out)]
  /\ UNCHANGED <<environ, jinja_env, converters, call, lazy>>

\* the callables a caller may hand to set_casting
Castings == {"str", "int", "float", "bool", "json", "upper"}

\* lazy.set_casting(casting) on the Lazy the caller holds
SetCasting(casting) ==
  /\ lazy.live
  /\ lazy' = [lazy EXCEPT !.obj = set_casting(lazy.obj, casting)]
  /\ last' = [NoOp EXCEPT !.op = "set_casting", !.arg = lazy.obj,
                          !.out = set_casting(lazy.obj, casting)]
  /\ UNCHANGED <<environ, jinja_env, converters, call>>

\* what a converter applied to the held Lazy leaves: the cast converters
\* and a registered wrapper return the object itself, after set_casting
Converted(conv, r) ==
  /\ last' = [NoOp EXCEPT !.op = "convert", !.arg = lazy.obj, !.out = r.v, !.tr = r.tr]
  /\ lazy' = IF conv \in {"str", "int", "float", "bool", "json", "custom"}
             THEN [lazy EXCEPT !.obj = r.v] ELSE lazy

\* get_converter(key, lazy, box_settings)
ConvertLazy(key) ==
  /\ lazy.live
  /\ key \in ConverterKeys
  /\ Converted(ConverterOf(key).conv, get_converter(key, lazy.obj, call.flag))
  /\ UNCHANGED <<environ, jinja_env, converters, call>>

Next ==
  \/ \E name \in {TokUp, <<"u","p">>} : AddConverter(name)
  \/ Unparse
  \/ ParseConfData
  \/ ParseEncoded
  \/ \E s \in SettingsChoices, v \in ValidatorChoices : Evaluate(s, v)
  \/ Unwrap

Spec == Init /\ [][Next]_vars

(***************************************************************************)
(* The life of one Lazy: the caller parses a template, and then sets the   *)
(* casting of the Lazy returned, hands it to converters of the registry    *)
(* and evaluates it, in any order.                                         *)
(***************************************************************************)
LazyHeads == {TokFormat, TokJinja, TokInt \o <<" ">> \o TokFormat, TokUp}
LazyTemplates ==
  { <<"{","t","h","i","s","}","0">>, <<"{","{","t","h","i","s","}","}","0">>,
    <<"4">>, <<"[","1",",",  " ","2","]">>, <<"y","e","s">> }
LazyInputs == {StrV(h \o <<" ">> \o t) : h \in LazyHeads, t \in LazyTemplates}

LazyInit ==
  /\ environ \in EnvChoices
  /\ jinja_env \in BOOLEAN
  /\ converters = BuiltinConverters
  /\ call \in [data : LazyInputs, tomlfy : {FALSE}, flag : {"absent", "True"}]
  /\ lazy = NoLazy
  /\ last = NoOp

LazyNext ==
  \/ AddConverter(TokUp)
  \/ ParseConfData
  \/ \E c \in Castings : SetCasting(c)
  \/ \E k \in {TokStr, TokInt, TokJson, TokFormat, TokMerge, TokUp} : ConvertLazy(k)
  \/ \E s \in SettingsChoices, v \in ValidatorChoices : Evaluate(s, v)

SpecLazy == LazyInit /\ [][LazyNext]_vars

(***************************************************************************)
(* Properties.                                                             *)
(***************************************************************************)
IsTyped(v) == v.t \in {"bool", "int", "float", "none", "list", "dict"}
IsString(v) == v.t = "str"
RegisteredPrefix(s) == \E k \in ConverterKeys : StartsWith(s, k)
FirstWord(s) == Partition(s, <<" ">>)[1]

UnknownDirective ==
  /\ last.op = "parse"
  /\ last.enabled
  /\ IsString(last.arg)
  /\ StartsWith(last.arg.s, <<"@">>)
  /\ FirstWord(last.arg.s) \notin ConverterKeys

\* C2 as stated: every string whose first word starts with "@" and is not
\* a key of the registry fails with the registry's lookup error.
UnknownDirectiveFails == UnknownDirective => last.out = Raise("KeyError")

\* C2: a string whose first word starts with "@" and is not a key of the
\* registry is returned unchanged, with no converter called, when it starts
\* with no registered key; it fails with KeyError only when a registered key
\* is a proper prefix of its first word.
UnknownDirectiveOutcome ==
  UnknownDirective =>
    /\ last.tr = <<>>
    /\ last.out = IF RegisteredPrefix(last.arg.s) THEN Raise("KeyError") ELSE last.arg

\* "@nope ..." has been parsed with casting enabled and came back as it was
UnknownDirectiveWitness ==
  /\ UnknownDirective
  /\ FirstWord(last.arg.s) = <<"@","n","o","p","e">>
  /\ Len(last.arg.s) > Len(FirstWord(last.arg.s))
  /\ last.out = last.arg

Primaries == {TokStr, TokInt, TokFloat, TokBool, TokJson}
FormatterOf(f) == IF f = TokFormat THEN "format" ELSE "jinja"

\* the parse of "<primary> <secondary> <payload>": the secondary is called
\* first, on a string, and the primary second, on the Lazy the secondary
\* returned; the result is that Lazy with the primary's cast
CompositeParse(p, f) ==
  (/\ last.op = "parse"
   /\ last.enabled
   /\ IsString(last.arg)
   /\ StartsWith(last.arg.s, p \o <<" ">> \o f))
    => /\ Len(last.tr) = 2
       /\ last.tr[1].key = f
       /\ IsString(last.tr[1].arg)
       /\ last.tr[2] = Called(p, Lazy(last.tr[1].arg, FormatterOf(f), ""))
       /\ last.out = Lazy(last.tr[1].arg, FormatterOf(f), ConverterOf(p).conv)

\* the evaluation of a Lazy that carries a cast: the template is rendered
\* with the context and the cast is applied to the rendered text; a failure
\* of the rendering is the outcome
CompositeEvaluate ==
  (/\ last.op = "evaluate"
   /\ last.arg.fmt \in {"format", "jinja"}
   /\ last.arg.cast \in {"str", "int", "float", "bool", "json"})
    => LET rendered == Formatter(last.arg.fmt, last.arg.kids[1], LazyContext(last.settings))
       IN  last.out = IF IsRaise(rendered) THEN rendered
                      ELSE Casting(last.arg.cast, rendered)

\* C3: composite directive.  For a primary in @str, @int, @float, @bool,
\* @json and a secondary in @format, @jinja, the converters are applied in
\* reverse token order and the parse yields one Lazy with the secondary's
\* formatter and the primary's cast; evaluating it casts the rendered text.
CompositeDirective ==
  /\ \A p \in Primaries, f \in Secondaries : CompositeParse(p, f)
  /\ CompositeEvaluate

\* "@int @format {this}0" has been parsed and evaluated with this = "4"
CompositeWitness ==
  /\ last.op = "evaluate"
  /\ call.data = StrV(TokInt \o <<" ">> \o TokFormat \o <<" ">> \o <<"{","t","h","i","s","}","0">>)
  /\ last.arg = Lazy(StrV(<<"{","t","h","i","s","}","0">>), "format", "int")
  /\ last.settings = <<"4">>
  /\ last.out = IntV(40)

\* C4: Merge normalization.  The value of every Merge that @merge or
\* @merge_unique constructs is a sequence or a mapping, never a bare
\* scalar, and unique is set exactly for @merge_unique.
MergeNormalized ==
  (last.op = "parse" /\ last.out.t = "Merge")
    => /\ last.out.kids[1].t \in {"list", "dict"}
       /\ (last.out.n = 1) = (FirstWord(last.arg.s) = TokMergeUnique)

\* the environment default disables casting, or the call's flag does
Disabled ==
  \/ call.flag = "False"
  \/ call.flag = "absent" /\ environ.set /\ Lower(environ.v) \in false_values

\* C5: toggle off.  With casting disabled a string that starts with a
\* registered key is returned unchanged and no converter is called; casting
\* is disabled exactly when the call's flag is false, or is absent with a
\* false environment default, so a flag that is present decides.
ToggleOff ==
  (last.op = "parse" /\ IsString(last.arg) /\ RegisteredPrefix(last.arg.s))
    => /\ last.enabled = ~Disabled
       /\ Disabled => (last.out = last.arg /\ last.tr = <<>>)
       /\ (call.flag = "True") => (last.tr # <<>> \/ IsRaise(last.out))

\* "@int 7" parsed with the flag false while the environment says "on"
ToggleOffWitness ==
  /\ last.op = "parse"
  /\ call.flag = "False"
  /\ environ = [set |-> TRUE, v |-> <<"o","n">>]
  /\ call.tomlfy
  /\ last.arg = StrV(TokInt \o <<" ", "7">>)
  /\ last.out = last.arg
  /\ last.tr = <<>>

SameOutcome(a, b) == IF IsRaise(a) \/ IsRaise(b) THEN IsRaise(a) /\ IsRaise(b) ELSE a = b
JsonFormatHeader == TokJson \o <<" ">> \o TokFormat \o <<" ">>
NoPlaceholder(s) == ~Contains(s, <<"{">>) /\ ~Contains(s, <<"}">>)

\* the outcome of parsing "@json P", P what follows the header of call.data
PlainJson ==
  _parse_conf_data(StrV(TokJson \o <<" ">> \o Drop(call.data.s, Len(JsonFormatHeader))),
                   FALSE, "True").v

\* C7: @json on both paths.  For a payload P without placeholders, the
\* evaluation of the Lazy parsed from "@json @format P" and the parse of
\* "@json P" give the same value, or both fail.
JsonBothPaths ==
  (/\ last.op = "evaluate"
   /\ IsString(call.data)
   /\ StartsWith(call.data.s, JsonFormatHeader)
   /\ NoPlaceholder(call.data.s)
   /\ last.arg = Lazy(StrV(Drop(call.data.s, Len(JsonFormatHeader))), "format", "json"))
    => SameOutcome(last.out, PlainJson)

\* C8: evaluation context.  The context every evaluation passes to the
\* formatter holds env, this and the validator object of that call.
ValidatorInContext ==
  last.op = "evaluate"
    => /\ CtxHas(last.ctx, <<"e","n","v">>)
       /\ CtxHas(last.ctx, <<"t","h","i","s">>)
       /\ CtxHas(last.ctx, ValidatorName)
       /\ CtxGet(last.ctx, ValidatorName) = last.validator

\* C9: Lazy immutability.  Once the Lazy has been evaluated, no later
\* operation changes its template, its formatter or its casting.
LazyFrozen == [][(lazy.live /\ lazy.evaluated) => lazy'.obj = lazy.obj]_vars

\* C10: combined header.  The payload handed to the secondary converter is
\* the text that follows the header in the string, surrounding whitespace
\* aside: occurrences of the header text inside it are kept.
CombinedPayload ==
  (/\ last.op = "parse"
   /\ last.enabled
   /\ IsString(last.arg)
   /\ RegisteredPrefix(last.arg.s)
   /\ CombToken(last.arg.s) # <<>>)
    => /\ last.tr # <<>>
       /\ last.tr[1].arg = StrV(Strip(Drop(last.arg.s, Len(CombToken(last.arg.s)))))

====
